---- MODULE Spec2Model ----
(***************************************************************************)
(* State-machine model of the GraphQL library backend (src/index.js):      *)
(* the resolvers of Query, Mutation, Subscription and Author, the request  *)
(* context derivation, the three record stores and the in-process          *)
(* publish/subscribe channel.                                              *)
(*                                                                         *)
(* Every resolver is an async function; it gives up control at each await  *)
(* and other requests run in between.  One action of the model is one      *)
(* database operation of a resolver together with the synchronous code     *)
(* that follows it up to the next await; an await of a computation         *)
(* (bcrypt.hash, bcrypt.compare) ends a step in the same way.              *)
(*                                                                         *)
(* A nullable value is a set with at most one element: {} is null or       *)
(* undefined, {x} is the value x.                                          *)
(***************************************************************************)
EXTENDS Integers, Sequences, FiniteSets, TLC

\* ---------------------------------------------------------------- bounds

\* Book records the stores may hold (addBook is not accepted beyond it).
MaxBooks == 2
\* User records the stores may hold.
MaxUsers == 1
\* bookAdded subscribers that may be connected.
MaxSubscribers == 1

\* The slots of the requests in flight: two run at the same time.
TaskIds == {1, 2}
SubIds == 1..MaxSubscribers

\* ---------------------------------------------------------------- inputs

AuthorNames == {"Tolkien", "Austen"}
Titles == {"The Hobbit"}
Years == {1937}
GenreLists == {<<"classic", "fantasy">>}
BornYears == {1980}
Usernames == {"ana"}
Passwords == {"hunter2"}
LoginPasswords == Passwords \cup {"defaultpassword"}
FavoriteGenres == {"fantasy"}
Salts == {"s1"}

\* Optional String arguments of allBooks: absent, or a value.
AuthorFilters == {{}, {"Tolkien"}, {"Nobody"}}
GenreFilters == {{}, {"fantasy"}, {"crime"}}

\* The signing secret the deployment's .env file holds.
EnvSecret == "secret"

\* What process.env.JWT_SECRET can hold when it is read: the read comes before
\* require("dotenv").config(), so it is the secret only when the process
\* environment holds it already (or a module required earlier has loaded
\* .env), and undefined otherwise.
SecretValues == {{}, {EnvSecret}}

\* bcrypt cost factor passed to bcrypt.hash.
BcryptRounds == 10

\* ------------------------------------------------------- pure operators

Max(S) == IF S = {} THEN 0 ELSE CHOOSE x \in S : \A y \in S : y <= x

Min(S) == CHOOSE x \in S : \A y \in S : x <= y

\* String.prototype.toLowerCase on the scheme part of the header.
ToLower(s) ==
    CASE s = "Bearer" -> "bearer"
      [] s = "BEARER" -> "bearer"
      [] s = "Basic"  -> "basic"
      [] OTHER        -> s

\* JavaScript truthiness of an optional string: null, undefined and "" are falsy.
Truthy(opt) == opt # {} /\ opt # {""}

\* jwt.sign(payload, secret): the payload bound to the key that signed it;
\* with an undefined secret it throws ("secretOrPrivateKey must have a
\* value"): {token} or {} (thrown).
JwtSign(payload, secret) ==
    {[id |-> payload.id, username |-> payload.username, key |-> k] : k \in secret}

\* jwt.verify(token, secret) returns the payload when the signature was made
\* with secret and throws otherwise (also when secret is undefined):
\* {payload} or {} (thrown).
JwtVerify(token, secret) ==
    IF {token.key} = secret
    THEN {[id |-> token.id, username |-> token.username]}
    ELSE {}

\* bcrypt.hash(password, rounds) with the salt it drew.
BcryptHash(password, rounds, salt) ==
    [alg |-> "bcrypt", rounds |-> rounds, salt |-> salt, digest |-> <<salt, password>>]

\* bcrypt.compare(password, hash): re-hash with the stored salt and compare.
BcryptCompare(password, hash) ==
    BcryptHash(password, hash.rounds, hash.salt) = hash

\* Tokens signed with the deployment's secret: one per user id that may
\* exist, and one naming an id no User ever has.
SignedTokens ==
    [id : 1..(MaxUsers + 1), username : Usernames, key : {EnvSecret}]

\* The Authorization header a request carries: absent (scheme ""), or
\* "<scheme> <token>": a signed token under another scheme, a token signed
\* with another key, a signed token as a bearer credential.
NoHeader == [scheme |-> "", token |-> [id |-> 0, username |-> "", key |-> ""]]

Headers ==
    {NoHeader}
      \cup [scheme : {"Basic"}, token : {t \in SignedTokens : t.id = 1}]
      \cup [scheme : {"Bearer"}, token : [id : {1}, username : Usernames, key : {"forged"}]]
      \cup [scheme : {"bearer"}, token : SignedTokens]

\* ----------------------------------------------------------------- state

VARIABLES
    authors,      \* the Author collection, in insertion order
    books,        \* the Book collection, in insertion order
    users,        \* the User collection, in insertion order
    tasks,        \* the requests in flight: position, arguments and locals
    subs,         \* the BOOK_ADDED listeners of pubsub and their queues
    published,    \* history: the ids of the Books published on BOOK_ADDED, in order
    supplied,     \* history: the password each createUser caller supplied
    JWT_SECRET,   \* the module constant JWT_SECRET: {} is undefined
    authorNameIndex  \* whether the Author collection has a unique index on name

vars == <<authors, books, users, tasks, subs, published, supplied, JWT_SECRET,
          authorNameIndex>>

\* ------------------------------------------------------ the record stores

\* Author.findOne({ name }): the first Author with exactly that name, or null.
AuthorFindOne(name) ==
    LET hits == {i \in DOMAIN authors : authors[i].name = name}
    IN  IF hits = {} THEN {} ELSE {authors[Min(hits)]}

\* The Author a Book's reference resolves to (populate("author")).
AuthorFindById(id) ==
    LET hits == {i \in DOMAIN authors : authors[i].id = id}
    IN  IF hits = {} THEN {} ELSE {authors[Min(hits)]}

\* User.findOne({ username }).
UserFindOne(username) ==
    LET hits == {i \in DOMAIN users : users[i].username = username}
    IN  IF hits = {} THEN {} ELSE {users[Min(hits)]}

\* User.findById(id).
UserFindById(id) ==
    LET hits == {i \in DOMAIN users : users[i].id = id}
    IN  IF hits = {} THEN {} ELSE {users[Min(hits)]}

\* The Author schema is not part of src/index.js, and addBook itself does
\* nothing to keep names apart, so both stores are possible: one without an
\* index on name, which accepts every insert, and one with a unique index,
\* which refuses an insert of doc when a record with its name is stored.
AuthorInsertRefused(doc) ==
    authorNameIndex /\ \E i \in DOMAIN authors : authors[i].name = doc.name

\* The unique index on User.username.
UserInsertRefused(doc) == \E i \in DOMAIN users : users[i].username = doc.username

\* Book.countDocuments(filter) / Book.find(filter): the stored Books that
\* satisfy every condition of query.  query.author is an Author id ({} when
\* the condition is not set), query.genre a genre ({} when not set;
\* { genres: { $in: [g] } } holds when g is an element of the genre list).
BookMatches(b, query) ==
    /\ \A a \in query.author : b.author = a
    /\ \A g \in query.genre : \E k \in DOMAIN b.genres : b.genres[k] = g

BookFind(query) == SelectSeq(books, LAMBDA b : BookMatches(b, query))

\* Query.authorCount: Author.countDocuments().
AuthorCountAll == Len(authors)

\* The Author.bookCount field resolver: Book.countDocuments({ author: root._id }).
AuthorBookCount(root) == Len(BookFind([author |-> {root.id}, genre |-> {}]))

\* book.populate("author"): the Book with its author reference replaced by
\* the referenced Author record (null when none has that id).
Populate(b) ==
    [id |-> b.id, title |-> b.title, published |-> b.published,
     author |-> AuthorFindById(b.author), genres |-> b.genres]

\* ------------------------------------------------------ request context

NullCtx == [kind |-> "null", currentUser |-> {}]

ObjectCtx(user) == [kind |-> "object", currentUser |-> user]

\* The context function given to startStandaloneServer, up to its await: for
\* a bearer token whose signature verifies, the decoded token whose user it
\* goes on to look up ({decodedToken}); in every other case it returns null
\* without a lookup ({}).
ContextFn(header) ==
    IF header.scheme # "" /\ ToLower(header.scheme) = "bearer"
    THEN JwtVerify(header.token, JWT_SECRET)
    ELSE {}

\* The requests that can arrive: at the HTTP server (port 4000) or at the
\* WebSocket server (port 4001), with any Authorization header.
Requests == [ep : {"http", "ws"}, header : Headers]

\* No response is waiting to be sent: a resolver's result is sent in the turn
\* of the event loop in which the resolver returns or throws.
NoneDone == \A u \in DOMAIN tasks : tasks[u].pc # "done"

\* A new request takes the first free slot.
FreeSlot(t) ==
    /\ tasks[t].pc = "idle"
    /\ \A u \in DOMAIN tasks : u < t => tasks[u].pc # "idle"

\* The context value a resolver is called with when no User is looked up.
\* The WebSocket server is set up with the schema alone
\* (useServer({ schema }, wsServer)): its operations run with no context
\* value, whatever the header.  The HTTP server hands the resolvers an empty
\* object in place of the null the context function returned.
HandOff(ep) ==
    IF ep = "ws" THEN NullCtx ELSE ObjectCtx({})

\* ------------------------------------------------------------- requests

IdleTask ==
    [pc |-> "idle", op |-> "", ep |-> "", header |-> NoHeader, args |-> <<>>,
     ctx |-> NullCtx, author |-> {}, book |-> {}, user |-> {}, found |-> <<>>,
     query |-> [author |-> {}, genre |-> {}], err |-> "", val |-> {},
     alone |-> TRUE,
     pre |-> [authors |-> <<>>, books |-> <<>>, users |-> <<>>, published |-> <<>>]]

\* The resolver calls whose history (alone, pre) is kept.
Tracked(rec) ==
    /\ rec.op \in {"addBook", "editAuthor", "allBooks"}
    /\ rec.pc \notin {"idle", "context"}

\* Task t takes a step to rec; every other resolver call in progress has had
\* another operation run during it.
Step(t, rec) ==
    tasks' = [u \in TaskIds |->
                IF u = t THEN rec
                ELSE IF Tracked(tasks[u])
                     THEN [tasks[u] EXCEPT !.alone = FALSE]
                     ELSE tasks[u]]

\* A resolver returns value / throws err.
Returned(rec, value) ==
    [rec EXCEPT !.pc = "done", !.val = {value}, !.err = "",
                !.author = {}, !.book = {}, !.user = {}, !.found = <<>>]

Thrown(rec, err) ==
    [rec EXCEPT !.pc = "done", !.val = {}, !.err = err,
                !.author = {}, !.book = {}, !.user = {}, !.found = <<>>]

NewTask(op, ep, header, args) ==
    [IdleTask EXCEPT !.op = op, !.ep = ep, !.header = header, !.args = args]

\* History kept with a resolver call: alone (no other operation has run since
\* the resolver was called) and pre (the stores as they were at the call).
Arrived(rec) ==
    [rec EXCEPT !.alone = TRUE,
                !.pre = [authors |-> authors, books |-> books, users |-> users,
                         published |-> published]]

\* ObjectIds are drawn when a document is constructed and are never reused.
NewAuthorId ==
    1 + Max({authors[i].id : i \in DOMAIN authors}
            \cup UNION {{d.id : d \in tasks[t].author} : t \in TaskIds})

NewBookId ==
    1 + Max({books[i].id : i \in DOMAIN books}
            \cup UNION {{d.id : d \in tasks[t].book} : t \in TaskIds})

NewUserId ==
    1 + Max({users[i].id : i \in DOMAIN users}
            \cup UNION {{d.id : d \in tasks[t].user} : t \in TaskIds})

\* Mutant: the event is published twice.
PublishTwice(ev) ==
    /\ subs' = [s \in SubIds |->
                  IF subs[s].active
                  THEN [subs[s] EXCEPT !.queue = Append(Append(@, ev), ev)]
                  ELSE subs[s]]
    /\ published' = Append(published, ev.id)

\* pubsub.publish("BOOK_ADDED", { bookAdded: ev }): every listener registered
\* at this moment gets the event appended to its queue.
Publish(ev) ==
    /\ subs' = [s \in SubIds |->
                  IF subs[s].active
                  THEN [subs[s] EXCEPT !.queue = Append(@, ev)]
                  ELSE subs[s]]
    /\ published' = Append(published, ev.id)

\* ---------------------------------------------------------------- Query.me

\* me: (root, args, context) => context.currentUser
MeCall(t, rec) ==
    IF rec.ctx.kind = "null"
    THEN Step(t, Thrown(rec, "TypeError"))
    ELSE Step(t, [Returned(rec, 0) EXCEPT !.val = rec.ctx.currentUser])

\* The resolver is entered: !context.currentUser throws UNAUTHENTICATED (a
\* TypeError when there is no context value); else Author.findOne is issued.
AddBookCall(t, rec) ==
    LET r == Arrived(rec)
    IN  IF r.ctx.kind = "null"
        THEN Step(t, Thrown(r, "TypeError"))
        ELSE IF r.ctx.currentUser = {}
        THEN Step(t, Thrown(r, "UNAUTHENTICATED"))
        ELSE Step(t, [r EXCEPT !.pc = "findAuthor"])

\* The resolver is entered: the same check; else Author.findOne is issued.
EditAuthorCall(t, rec) ==
    LET r == Arrived(rec)
    IN  IF r.ctx.kind = "null"
        THEN Step(t, Thrown(r, "TypeError"))
        ELSE IF r.ctx.currentUser = {}
        THEN Step(t, Thrown(r, "UNAUTHENTICATED"))
        ELSE Step(t, [r EXCEPT !.pc = "editFind"])

\* The resolver of the request's operation is called with context rec.ctx.
Call(t, rec) ==
    CASE rec.op = "me"         -> MeCall(t, rec)
      [] rec.op = "addBook"    -> AddBookCall(t, rec)
      [] rec.op = "editAuthor" -> EditAuthorCall(t, rec)

\* A request of an operation that reads the context arrives.  At the HTTP
\* server with a bearer token that verifies, the context function issues
\* User.findById and the request waits for it; in every other case the
\* resolver is called in the same turn.
Arrive(t, rec) ==
    IF rec.ep = "http" /\ ContextFn(rec.header) # {}
    THEN Step(t, [rec EXCEPT !.pc = "context"])
    ELSE Call(t, [rec EXCEPT !.ctx = HandOff(rec.ep)])

\* User.findById answers: the context function returns { currentUser }
\* (currentUser null when no User has the id) and the resolver is called.
ContextFindById(t) ==
    /\ tasks[t].pc = "context"
    /\ NoneDone
    /\ LET decodedToken == CHOOSE d \in ContextFn(tasks[t].header) : TRUE
       IN  Call(t, [tasks[t] EXCEPT !.ctx = ObjectCtx(UserFindById(decodedToken.id))])
    /\ UNCHANGED <<authors, books, users, subs, published, supplied, JWT_SECRET, authorNameIndex>>

\* A me request arrives.
Me(t) ==
    /\ NoneDone
    /\ FreeSlot(t)
    /\ \E r \in Requests : Arrive(t, NewTask("me", r.ep, r.header, <<>>))
    /\ UNCHANGED <<authors, books, users, subs, published, supplied, JWT_SECRET, authorNameIndex>>

\* ------------------------------------------------------- Mutation.addBook

AddBookArgs ==
    [title : Titles, author : AuthorNames, published : Years, genres : GenreLists]

BooksInFlight ==
    Cardinality({t \in TaskIds : tasks[t].op = "addBook"
                                   /\ tasks[t].pc \in {"context", "findAuthor",
                                                        "saveAuthor", "saveBook"}})

\* Mutant: the Book is constructed without its author reference.
NewBookUnreferenced(args, author) ==
    [id |-> NewBookId, title |-> args.title, published |-> args.published,
     author |-> 0, genres |-> args.genres]

\* new Book({ title, published, author: author._id, genres })
NewBook(args, author) ==
    [id |-> NewBookId, title |-> args.title, published |-> args.published,
     author |-> author.id, genres |-> args.genres]

\* An addBook request arrives.
AddBookStart(t) ==
    /\ NoneDone
    /\ FreeSlot(t)
    /\ Len(books) + BooksInFlight < MaxBooks
    /\ \E r \in Requests, args \in AddBookArgs :
            Arrive(t, NewTask("addBook", r.ep, r.header, args))
    /\ UNCHANGED <<authors, books, users, subs, published, supplied, JWT_SECRET, authorNameIndex>>

\* Mutant: the result of the lookup is ignored and an Author is always
\* constructed.
AddBookFindAuthorAlwaysNew(t) ==
    /\ tasks[t].pc = "findAuthor"
    /\ NoneDone
    /\ Step(t, [tasks[t] EXCEPT
            !.pc = "saveAuthor",
            !.author = {[id |-> NewAuthorId, name |-> tasks[t].args.author, born |-> {}]}])
    /\ UNCHANGED <<authors, books, users, subs, published, supplied, JWT_SECRET, authorNameIndex>>

\* Author.findOne answers; a missing Author is constructed (name only) and its
\* save issued, else the Book is constructed and its save issued.
AddBookFindAuthor(t) ==
    /\ tasks[t].pc = "findAuthor"
    /\ NoneDone
    /\ LET found == AuthorFindOne(tasks[t].args.author)
       IN  IF found = {}
           THEN Step(t, [tasks[t] EXCEPT
                    !.pc = "saveAuthor",
                    !.author = {[id |-> NewAuthorId, name |-> tasks[t].args.author, born |-> {}]}])
           ELSE Step(t, [tasks[t] EXCEPT
                    !.pc = "saveBook",
                    !.author = found,
                    !.book = {NewBook(tasks[t].args, CHOOSE a \in found : TRUE)}])
    /\ UNCHANGED <<authors, books, users, subs, published, supplied, JWT_SECRET, authorNameIndex>>

\* Mutant: the new Author is never saved.
AddBookSaveAuthorUnsaved(t) ==
    /\ tasks[t].pc = "saveAuthor"
    /\ NoneDone
    /\ LET doc == CHOOSE a \in tasks[t].author : TRUE
       IN  Step(t, [tasks[t] EXCEPT !.pc = "saveBook",
                                    !.book = {NewBook(tasks[t].args, doc)}])
    /\ UNCHANGED <<authors, books, users, subs, published, supplied, JWT_SECRET, authorNameIndex>>

\* author.save() answers: the insert, or (from a store with the unique index)
\* the duplicate-key error, which the resolver does not catch.
AddBookSaveAuthor(t) ==
    /\ tasks[t].pc = "saveAuthor"
    /\ NoneDone
    /\ LET doc == CHOOSE a \in tasks[t].author : TRUE
       IN  IF AuthorInsertRefused(doc)
           THEN /\ Step(t, Thrown(tasks[t], "DuplicateKey"))
                /\ UNCHANGED authors
           ELSE /\ authors' = Append(authors, doc)
                /\ Step(t, [tasks[t] EXCEPT !.pc = "saveBook",
                                            !.book = {NewBook(tasks[t].args, doc)}])
    /\ UNCHANGED <<books, users, subs, published, supplied, JWT_SECRET, authorNameIndex>>

\* newBook.save() answers and the populate is issued.
AddBookSaveBook(t) ==
    /\ tasks[t].pc = "saveBook"
    /\ NoneDone
    /\ books' = Append(books, CHOOSE b \in tasks[t].book : TRUE)
    /\ Step(t, [tasks[t] EXCEPT !.pc = "populate"])
    /\ UNCHANGED <<authors, users, subs, published, supplied, JWT_SECRET, authorNameIndex>>

\* newBook.populate("author") answers; the populated Book is published on
\* BOOK_ADDED and returned.
AddBookPopulate(t) ==
    /\ tasks[t].pc = "populate"
    /\ NoneDone
    /\ LET populatedBook == Populate(CHOOSE b \in tasks[t].book : TRUE)
       IN  /\ Publish(populatedBook)
           /\ Step(t, Returned(tasks[t], populatedBook))
    /\ UNCHANGED <<authors, books, users, supplied, JWT_SECRET, authorNameIndex>>

\* ---------------------------------------------------- Mutation.editAuthor

EditAuthorArgs == [name : AuthorNames, setBornTo : BornYears]

\* An editAuthor request arrives.
EditAuthorStart(t) ==
    /\ NoneDone
    /\ FreeSlot(t)
    /\ \E r \in Requests, args \in EditAuthorArgs :
            Arrive(t, NewTask("editAuthor", r.ep, r.header, args))
    /\ UNCHANGED <<authors, books, users, subs, published, supplied, JWT_SECRET, authorNameIndex>>

\* Author.findOne answers: NOT_FOUND, or born is set on the document and its
\* save issued.
EditAuthorFind(t) ==
    /\ tasks[t].pc = "editFind"
    /\ NoneDone
    /\ LET found == AuthorFindOne(tasks[t].args.name)
       IN  IF found = {}
           THEN Step(t, Thrown(tasks[t], "NOT_FOUND"))
           ELSE Step(t, [tasks[t] EXCEPT
                    !.pc = "editSave",
                    !.author = {[a EXCEPT !.born = {tasks[t].args.setBornTo}] : a \in found}])
    /\ UNCHANGED <<authors, books, users, subs, published, supplied, JWT_SECRET, authorNameIndex>>

\* Mutant: the update is not limited to the document's id.
EditAuthorSaveAll(t) ==
    /\ tasks[t].pc = "editSave"
    /\ NoneDone
    /\ LET doc == CHOOSE a \in tasks[t].author : TRUE
       IN  /\ authors' = [i \in DOMAIN authors |-> [authors[i] EXCEPT !.born = doc.born]]
           /\ Step(t, Returned(tasks[t], doc))
    /\ UNCHANGED <<books, users, subs, published, supplied, JWT_SECRET, authorNameIndex>>

\* author.save() answers: the modified path (born) of the stored record with
\* the document's id is written.
EditAuthorSave(t) ==
    /\ tasks[t].pc = "editSave"
    /\ NoneDone
    /\ LET doc == CHOOSE a \in tasks[t].author : TRUE
       IN  /\ authors' = [i \in DOMAIN authors |->
                            IF authors[i].id = doc.id
                            THEN [authors[i] EXCEPT !.born = doc.born]
                            ELSE authors[i]]
           /\ Step(t, Returned(tasks[t], doc))
    /\ UNCHANGED <<books, users, subs, published, supplied, JWT_SECRET, authorNameIndex>>

\* ------------------------------------------------------- Query.allBooks

AllBooksArgs == [author : AuthorFilters, genre : GenreFilters]

\* if (args.genre) query.genres = { $in: [args.genre] }
WithGenre(query, args) ==
    IF Truthy(args.genre) THEN [query EXCEPT !.genre = args.genre] ELSE query

\* The request arrives: with an author argument Author.findOne is issued,
\* else the query is complete and Book.find is issued.
AllBooksStart(t) ==
    /\ NoneDone
    /\ FreeSlot(t)
    /\ \E args \in AllBooksArgs :
         LET rec == NewTask("allBooks", "http", NoHeader, args)
         IN  IF Truthy(args.author)
             THEN Step(t, [rec EXCEPT !.pc = "booksFindAuthor"])
             ELSE Step(t, [rec EXCEPT !.pc = "booksFind",
                                      !.query = WithGenre(rec.query, args)])
    /\ UNCHANGED <<authors, books, users, subs, published, supplied, JWT_SECRET, authorNameIndex>>

\* Author.findOne answers: only a found Author sets query.author.
AllBooksFindAuthor(t) ==
    /\ tasks[t].pc = "booksFindAuthor"
    /\ NoneDone
    /\ LET found == AuthorFindOne(CHOOSE n \in tasks[t].args.author : TRUE)
           q == [tasks[t].query EXCEPT !.author = {a.id : a \in found}]
       IN  Step(t, [tasks[t] EXCEPT !.pc = "booksFind",
                                    !.query = WithGenre(q, tasks[t].args)])
    /\ UNCHANGED <<authors, books, users, subs, published, supplied, JWT_SECRET, authorNameIndex>>

\* Book.find(query) answers with the matching Books, and the query that
\* populates their author references is issued.
AllBooksFind(t) ==
    /\ tasks[t].pc = "booksFind"
    /\ NoneDone
    /\ Step(t, [tasks[t] EXCEPT !.pc = "booksPopulate",
                                !.found = BookFind(tasks[t].query)])
    /\ UNCHANGED <<authors, books, users, subs, published, supplied, JWT_SECRET, authorNameIndex>>

\* .populate("author") answers: the Books found, each with the Author its
\* reference resolves to now.
AllBooksPopulate(t) ==
    /\ tasks[t].pc = "booksPopulate"
    /\ NoneDone
    /\ LET found == tasks[t].found
       IN  Step(t, Returned(tasks[t], [i \in DOMAIN found |-> Populate(found[i])]))
    /\ UNCHANGED <<authors, books, users, subs, published, supplied, JWT_SECRET, authorNameIndex>>

\* ---------------------------------------------------- Mutation.createUser

CreateUserArgs ==
    [username : Usernames, favoriteGenre : FavoriteGenres, password : Passwords]

\* Usernames stored or about to be stored.
UsernamesInUse ==
    {users[i].username : i \in DOMAIN users}
      \cup {tasks[t].args.username :
              t \in {u \in TaskIds : tasks[u].op = "createUser" /\ tasks[u].pc # "done"}}

CreateUserStart(t) ==
    /\ NoneDone
    /\ FreeSlot(t)
    /\ \E args \in CreateUserArgs :
         /\ Cardinality(UsernamesInUse \cup {args.username}) <= MaxUsers
         /\ Step(t, [NewTask("createUser", "http", NoHeader, args)
                       EXCEPT !.pc = "userFind"])
    /\ UNCHANGED <<authors, books, users, subs, published, supplied, JWT_SECRET, authorNameIndex>>

\* User.findOne answers: BAD_USER_INPUT for a taken username; else
\* bcrypt.hash("defaultpassword", 10) is started.
CreateUserFind(t) ==
    /\ tasks[t].pc = "userFind"
    /\ NoneDone
    /\ IF UserFindOne(tasks[t].args.username) # {}
       THEN Step(t, Thrown(tasks[t], "BAD_USER_INPUT"))
       ELSE Step(t, [tasks[t] EXCEPT !.pc = "userHash"])
    /\ UNCHANGED <<authors, books, users, subs, published, supplied, JWT_SECRET, authorNameIndex>>

\* bcrypt.hash answers; the User is constructed and its save issued.
CreateUserHash(t) ==
    /\ tasks[t].pc = "userHash"
    /\ NoneDone
    /\ \E salt \in Salts :
         Step(t, [tasks[t] EXCEPT
            !.pc = "userSave",
            !.user = {[id |-> NewUserId,
                       username |-> tasks[t].args.username,
                       favoriteGenre |-> tasks[t].args.favoriteGenre,
                       passwordHash |-> BcryptHash("defaultpassword", BcryptRounds, salt)]}])
    /\ UNCHANGED <<authors, books, users, subs, published, supplied, JWT_SECRET, authorNameIndex>>

\* newUser.save() answers: the insert, or the unique index's error, caught
\* and rethrown as BAD_USER_INPUT.
CreateUserSave(t) ==
    /\ tasks[t].pc = "userSave"
    /\ NoneDone
    /\ LET doc == CHOOSE u \in tasks[t].user : TRUE
       IN  IF UserInsertRefused(doc)
           THEN /\ Step(t, Thrown(tasks[t], "BAD_USER_INPUT"))
                /\ UNCHANGED <<users, supplied>>
           ELSE /\ users' = Append(users, doc)
                /\ supplied' = [supplied EXCEPT ![doc.username] = {tasks[t].args.password}]
                /\ Step(t, Returned(tasks[t], doc))
    /\ UNCHANGED <<authors, books, subs, published, JWT_SECRET, authorNameIndex>>

\* --------------------------------------------------------- Mutation.login

LoginArgs == [username : Usernames \cup {"nobody"}, password : LoginPasswords]

LoginStart(t) ==
    /\ NoneDone
    /\ FreeSlot(t)
    /\ \E args \in LoginArgs :
         Step(t, [NewTask("login", "http", NoHeader, args) EXCEPT !.pc = "loginFind"])
    /\ UNCHANGED <<authors, books, users, subs, published, supplied, JWT_SECRET, authorNameIndex>>

\* User.findOne answers: BAD_USER_INPUT when no User has the username; else
\* bcrypt.compare is started on the User found.
LoginFind(t) ==
    /\ tasks[t].pc = "loginFind"
    /\ NoneDone
    /\ LET found == UserFindOne(tasks[t].args.username)
       IN  IF found = {}
           THEN Step(t, Thrown(tasks[t], "BAD_USER_INPUT"))
           ELSE Step(t, [tasks[t] EXCEPT !.pc = "loginCompare", !.user = found])
    /\ UNCHANGED <<authors, books, users, subs, published, supplied, JWT_SECRET, authorNameIndex>>

\* bcrypt.compare answers: BAD_USER_INPUT on a mismatch; else jwt.sign, whose
\* error (an undefined secret) the resolver does not catch.
LoginCompare(t) ==
    /\ tasks[t].pc = "loginCompare"
    /\ NoneDone
    /\ LET user == CHOOSE u \in tasks[t].user : TRUE
           token == JwtSign([id |-> user.id, username |-> user.username], JWT_SECRET)
       IN  IF ~BcryptCompare(tasks[t].args.password, user.passwordHash)
           THEN Step(t, Thrown(tasks[t], "BAD_USER_INPUT"))
           ELSE IF token = {}
           THEN Step(t, Thrown(tasks[t], "Error"))
           ELSE Step(t, Returned(tasks[t],
                   [value |-> CHOOSE k \in token : TRUE,
                    favoriteGenre |-> user.favoriteGenre]))
    /\ UNCHANGED <<authors, books, users, subs, published, supplied, JWT_SECRET, authorNameIndex>>

\* --------------------------------------------------- the response is sent

\* The slot is given up; the requests behind it move up, so the slots hold
\* the requests in flight in their order of arrival.
Respond(t) ==
    /\ tasks[t].pc = "done"
    /\ tasks' = [u \in TaskIds |->
                  IF u < t THEN tasks[u]
                  ELSE IF u + 1 \in TaskIds THEN tasks[u + 1]
                  ELSE IdleTask]
    /\ UNCHANGED <<authors, books, users, subs, published, supplied, JWT_SECRET, authorNameIndex>>

\* ------------------------------------------------- Subscription.bookAdded

IdleSub == [active |-> FALSE, queue |-> <<>>, got |-> <<>>, since |-> 0]

\* subscribe: pubsub.asyncIterator(["BOOK_ADDED"]) registers a listener with
\* an empty queue.  got and since are history: what the client has been sent,
\* and how many events had been published when it subscribed.
Subscribe(s) ==
    /\ NoneDone
    /\ ~subs[s].active
    /\ subs' = [subs EXCEPT ![s] = [active |-> TRUE, queue |-> <<>>, got |-> <<>>,
                                    since |-> Len(published)]]
    /\ UNCHANGED <<authors, books, users, tasks, published, supplied, JWT_SECRET, authorNameIndex>>

\* The iterator hands the client the oldest queued event.
Deliver(s) ==
    /\ NoneDone
    /\ subs[s].active
    /\ subs[s].queue # <<>>
    /\ subs' = [subs EXCEPT ![s].queue = Tail(@), ![s].got = Append(@, Head(subs[s].queue))]
    /\ UNCHANGED <<authors, books, users, tasks, published, supplied, JWT_SECRET, authorNameIndex>>

\* The client disconnects: the listener is removed and its queue dropped.
Unsubscribe(s) ==
    /\ NoneDone
    /\ subs[s].active
    /\ subs' = [subs EXCEPT ![s] = IdleSub]
    /\ UNCHANGED <<authors, books, users, tasks, published, supplied, JWT_SECRET, authorNameIndex>>

\* ---------------------------------------------------------- specification

Init ==
    /\ authors = <<>>
    /\ books = <<>>
    /\ users = <<>>
    /\ tasks = [t \in TaskIds |-> IdleTask]
    /\ subs = [s \in SubIds |-> IdleSub]
    /\ published = <<>>
    /\ supplied = [u \in Usernames |-> {}]
    /\ JWT_SECRET \in SecretValues
    /\ authorNameIndex \in BOOLEAN

Next ==
    \/ \E t \in TaskIds :
         \/ ContextFindById(t)
         \/ Me(t)
         \/ AddBookStart(t)
         \/ AddBookFindAuthor(t)
         \/ AddBookSaveAuthor(t)
         \/ AddBookSaveBook(t)
         \/ AddBookPopulate(t)
         \/ EditAuthorStart(t)
         \/ EditAuthorFind(t)
         \/ EditAuthorSave(t)
         \/ AllBooksStart(t)
         \/ AllBooksFindAuthor(t)
         \/ AllBooksFind(t)
         \/ AllBooksPopulate(t)
         \/ CreateUserStart(t)
         \/ CreateUserFind(t)
         \/ CreateUserHash(t)
         \/ CreateUserSave(t)
         \/ LoginStart(t)
         \/ LoginFind(t)
         \/ LoginCompare(t)
         \/ Respond(t)
    \/ \E s \in SubIds :
         \/ Subscribe(s)
         \/ Deliver(s)
         \/ Unsubscribe(s)

Spec == Init /\ [][Next]_vars

\* The same system under narrower workloads: the clients send only some of
\* the operations.

\* Sign-up and addBook.
NextBooks ==
    \E t \in TaskIds :
       \/ ContextFindById(t)
       \/ CreateUserStart(t)
       \/ CreateUserFind(t)
       \/ CreateUserHash(t)
       \/ CreateUserSave(t)
       \/ AddBookStart(t)
       \/ AddBookFindAuthor(t)
       \/ AddBookSaveAuthor(t)
       \/ AddBookSaveBook(t)
       \/ AddBookPopulate(t)
       \/ Respond(t)

SpecBooks == Init /\ [][NextBooks]_vars

\* Sign-up, addBook and editAuthor.
NextEdit ==
    \E t \in TaskIds :
       \/ ContextFindById(t)
       \/ CreateUserStart(t)
       \/ CreateUserFind(t)
       \/ CreateUserHash(t)
       \/ CreateUserSave(t)
       \/ AddBookStart(t)
       \/ AddBookFindAuthor(t)
       \/ AddBookSaveAuthor(t)
       \/ AddBookSaveBook(t)
       \/ AddBookPopulate(t)
       \/ EditAuthorStart(t)
       \/ EditAuthorFind(t)
       \/ EditAuthorSave(t)
       \/ Respond(t)

SpecEdit == Init /\ [][NextEdit]_vars

\* Sign-up, addBook and the bookAdded subscribers.
NextSubs ==
    \/ \E t \in TaskIds :
         \/ ContextFindById(t)
         \/ CreateUserStart(t)
         \/ CreateUserFind(t)
         \/ CreateUserHash(t)
         \/ CreateUserSave(t)
         \/ AddBookStart(t)
         \/ AddBookFindAuthor(t)
         \/ AddBookSaveAuthor(t)
         \/ AddBookSaveBook(t)
         \/ AddBookPopulate(t)
         \/ Respond(t)
    \/ \E s \in SubIds :
         \/ Subscribe(s)
         \/ Deliver(s)
         \/ Unsubscribe(s)

SpecSubs == Init /\ [][NextSubs]_vars

\* Sign-up, login and me.
NextUsers ==
    \E t \in TaskIds :
       \/ ContextFindById(t)
       \/ CreateUserStart(t)
       \/ CreateUserFind(t)
       \/ CreateUserHash(t)
       \/ CreateUserSave(t)
       \/ LoginStart(t)
       \/ LoginFind(t)
       \/ LoginCompare(t)
       \/ Me(t)
       \/ Respond(t)

SpecUsers == Init /\ [][NextUsers]_vars

\* Sign-up, addBook and allBooks.
NextQuery ==
    \E t \in TaskIds :
       \/ ContextFindById(t)
       \/ CreateUserStart(t)
       \/ CreateUserFind(t)
       \/ CreateUserHash(t)
       \/ CreateUserSave(t)
       \/ AddBookStart(t)
       \/ AddBookFindAuthor(t)
       \/ AddBookSaveAuthor(t)
       \/ AddBookSaveBook(t)
       \/ AddBookPopulate(t)
       \/ AllBooksStart(t)
       \/ AllBooksFindAuthor(t)
       \/ AllBooksFind(t)
       \/ AllBooksPopulate(t)
       \/ Respond(t)

SpecQuery == Init /\ [][NextQuery]_vars


\* ------------------------------------------------------------ properties

\* The request of rec carries no current user: it came over the WebSocket
\* server, or has no Authorization header, a header that is not a bearer
\* credential, a token whose signature does not verify against JWT_SECRET, or
\* a token naming no stored User.
NoCurrentUser(rec) ==
    \/ rec.ep = "ws"
    \/ rec.header.scheme = ""
    \/ ToLower(rec.header.scheme) # "bearer"
    \/ {rec.header.token.key} # JWT_SECRET
    \/ \A i \in DOMAIN users : users[i].id # rec.header.token.id

\* C1: an addBook call made with a current user, started when no Author has
\* the given name and run with no other operation in between, succeeds,
\* appends exactly one Author (that name, born unset, a new id) and exactly one
\* Book, leaves the earlier records as they were, and the new Book references
\* the new Author, which is also the author of the returned Book.
C1_AddBookNewAuthor ==
    \A t \in TaskIds :
       LET r == tasks[t]
       IN  (/\ r.pc = "done" /\ r.op = "addBook" /\ r.ctx.currentUser # {} /\ r.alone
            /\ \A i \in DOMAIN r.pre.authors : r.pre.authors[i].name # r.args.author)
           =>
           /\ r.err = ""
           /\ Len(authors) = Len(r.pre.authors) + 1
           /\ SubSeq(authors, 1, Len(r.pre.authors)) = r.pre.authors
           /\ Len(books) = Len(r.pre.books) + 1
           /\ SubSeq(books, 1, Len(r.pre.books)) = r.pre.books
           /\ LET a == authors[Len(authors)]
                  b == books[Len(books)]
              IN  /\ a.name = r.args.author
                  /\ a.born = {}
                  /\ \A i \in DOMAIN r.pre.authors : r.pre.authors[i].id # a.id
                  /\ b.author = a.id
                  /\ b.title = r.args.title
                  /\ b.published = r.args.published
                  /\ b.genres = r.args.genres
                  /\ r.val = {[id |-> b.id, title |-> b.title, published |-> b.published,
                               author |-> {a}, genres |-> b.genres]}

\* C1 witness: such a call has returned.
C1_Witness ==
    \E t \in TaskIds :
       /\ tasks[t].pc = "done" /\ tasks[t].op = "addBook" /\ tasks[t].alone
       /\ tasks[t].ctx.currentUser # {}
       /\ \A i \in DOMAIN tasks[t].pre.authors :
             tasks[t].pre.authors[i].name # tasks[t].args.author
       /\ tasks[t].err = ""
       /\ Len(authors) = Len(tasks[t].pre.authors) + 1

\* C2: an addBook call made with a current user, started when an Author with
\* the given name exists and run with no other operation in between, succeeds,
\* leaves the Author collection (and authorCount) as it was, appends exactly
\* one Book, and that Book references the existing Author (the one the lookup
\* finds: the first stored with that name).
C2_AddBookExistingAuthor ==
    \A t \in TaskIds :
       LET r == tasks[t]
           hits == {i \in DOMAIN r.pre.authors : r.pre.authors[i].name = r.args.author}
       IN  (/\ r.pc = "done" /\ r.op = "addBook" /\ r.ctx.currentUser # {} /\ r.alone
            /\ hits # {})
           =>
           /\ r.err = ""
           /\ authors = r.pre.authors
           /\ AuthorCountAll = Len(r.pre.authors)
           /\ Len(books) = Len(r.pre.books) + 1
           /\ SubSeq(books, 1, Len(r.pre.books)) = r.pre.books
           /\ books[Len(books)].author = r.pre.authors[Min(hits)].id

\* C2 witness: a second Book of an Author has been added.
C2_Witness ==
    \E t \in TaskIds :
       /\ tasks[t].pc = "done" /\ tasks[t].op = "addBook" /\ tasks[t].alone
       /\ tasks[t].ctx.currentUser # {}
       /\ tasks[t].err = ""
       /\ \E i \in DOMAIN tasks[t].pre.authors :
             tasks[t].pre.authors[i].name = tasks[t].args.author
       /\ Len(books) = 2
       /\ Len(authors) = 1

\* C3: for every Author the bookCount field resolver gives the number of
\* Books that reference the Author's id, and when an addBook has returned (no
\* other operation in between) it is, for the Author of the returned Book, who
\* has the name given, one more than when the call arrived, and for every
\* other Author what it was.
C3_BookCount ==
    /\ \A i \in DOMAIN authors :
          AuthorBookCount(authors[i])
            = Cardinality({k \in DOMAIN books : books[k].author = authors[i].id})
    /\ \A t \in TaskIds :
          LET r == tasks[t]
          IN  (r.pc = "done" /\ r.op = "addBook" /\ r.err = "" /\ r.alone)
              =>
              \E v \in r.val : \E a \in v.author :
                 /\ a.name = r.args.author
                 /\ \E i \in DOMAIN authors : authors[i] = a
                 /\ \A i \in DOMAIN authors :
                       AuthorBookCount(authors[i])
                         = (IF authors[i].id = a.id THEN 1 ELSE 0)
                           + Cardinality({k \in DOMAIN r.pre.books :
                                            r.pre.books[k].author = authors[i].id})

\* C3 witness: an addBook has raised an Author's bookCount from 1 to 2.
C3_Witness ==
    \E t \in TaskIds :
       /\ tasks[t].pc = "done" /\ tasks[t].op = "addBook" /\ tasks[t].alone
       /\ tasks[t].err = ""
       /\ \E i \in DOMAIN authors :
             /\ authors[i].name = tasks[t].args.author
             /\ AuthorBookCount(authors[i]) = 2

\* C4: allBooks returns exactly the Books that reference the Author with the
\* given name (when author is given) and whose genres contain the given genre
\* (when genre is given); an author name no Author has gives the empty list.
C4_AllBooksFilters ==
    \A t \in TaskIds :
       LET r == tasks[t]
           expected ==
             {Populate(books[i]) :
                i \in {k \in DOMAIN books :
                         /\ r.args.author # {}
                            => \E j \in DOMAIN authors :
                                  /\ authors[j].name \in r.args.author
                                  /\ books[k].author = authors[j].id
                         /\ r.args.genre # {}
                            => \E g \in DOMAIN books[k].genres :
                                  books[k].genres[g] \in r.args.genre}}
       IN  (r.pc = "done" /\ r.op = "allBooks" /\ r.alone)
           =>
           /\ r.err = ""
           /\ \E v \in r.val :
                 /\ {v[k] : k \in DOMAIN v} = expected
                 /\ Len(v) = Cardinality(expected)

\* C5: addBook and editAuthor of a request that carries no current user fail
\* with UNAUTHENTICATED, leave the three stores as they were and publish no
\* BOOK_ADDED event.
C5_UnauthenticatedRejected ==
    \A t \in TaskIds :
       LET r == tasks[t]
       IN  (r.pc = "done" /\ r.op \in {"addBook", "editAuthor"} /\ NoCurrentUser(r))
           =>
           /\ r.err = "UNAUTHENTICATED"
           /\ authors = r.pre.authors
           /\ books = r.pre.books
           /\ users = r.pre.users
           /\ published = r.pre.published

\* C6: an editAuthor call made with a current user and run with no other
\* operation in between: when an Author has the given name, it returns that
\* Author (the one the lookup finds: the first stored with that name) with
\* born = setBornTo, only the born of that stored record has changed, and the
\* Books and Users are as they were; when none has, it fails with NOT_FOUND
\* and all three stores are as they were.
C6_EditAuthor ==
    \A t \in TaskIds :
       LET r == tasks[t]
           hits == {i \in DOMAIN r.pre.authors : r.pre.authors[i].name = r.args.name}
           edited == [i \in DOMAIN r.pre.authors |->
                        IF i = Min(hits)
                        THEN [r.pre.authors[i] EXCEPT !.born = {r.args.setBornTo}]
                        ELSE r.pre.authors[i]]
       IN  (r.pc = "done" /\ r.op = "editAuthor" /\ r.ctx.currentUser # {} /\ r.alone)
           =>
           /\ books = r.pre.books
           /\ users = r.pre.users
           /\ IF hits # {}
              THEN /\ r.err = ""
                   /\ authors = edited
                   /\ r.val = {edited[Min(hits)]}
              ELSE /\ r.err = "NOT_FOUND"
                   /\ authors = r.pre.authors

\* C6 witness: born has been set on one of two stored Authors, with a Book
\* stored.
C6_Witness ==
    \E t \in TaskIds :
       /\ tasks[t].pc = "done" /\ tasks[t].op = "editAuthor" /\ tasks[t].alone
       /\ tasks[t].ctx.currentUser # {}
       /\ tasks[t].err = ""
       /\ Len(authors) = 2
       /\ Len(books) >= 1
       /\ authors # tasks[t].pre.authors
       /\ \E i \in DOMAIN authors : authors[i].born = {}

\* C7: me never ends in an error: it returns the User a valid bearer token
\* names, and null for a request that carries no current user.
C7_MeNeverFails ==
    \A t \in TaskIds :
       LET r == tasks[t]
       IN  (r.pc = "done" /\ r.op = "me")
           =>
           /\ r.err = ""
           /\ r.val = IF NoCurrentUser(r) THEN {} ELSE UserFindById(r.header.token.id)

\* C8: login succeeds exactly with the password the user's createUser call
\* supplied, and then returns a token with the user's id and username and the
\* user's favoriteGenre; any other login fails with BAD_USER_INPUT and returns
\* no token.
C8_LoginWithSuppliedPassword ==
    \A t \in TaskIds :
       LET r == tasks[t]
           found == UserFindOne(r.args.username)
       IN  (r.pc = "done" /\ r.op = "login")
           =>
           IF found # {} /\ r.args.password \in supplied[r.args.username]
           THEN /\ r.err = ""
                /\ r.val = {[value |-> [id |-> u.id, username |-> u.username,
                                        key |-> EnvSecret],
                             favoriteGenre |-> u.favoriteGenre] : u \in found}
           ELSE /\ r.err = "BAD_USER_INPUT"
                /\ r.val = {}

\* C9: what a subscriber has been sent, followed by what is queued for it, is
\* exactly the events published since it subscribed, each once and in publish
\* order, each carrying a stored Book; nothing published earlier is among
\* them; every stored Book is published once, after its save and no later than
\* the return of its addBook, and an addBook that stores no Book publishes
\* nothing.
C9_BookAddedDelivery ==
    /\ \A s \in SubIds :
          subs[s].active =>
            LET seen == subs[s].got \o subs[s].queue
            IN  /\ subs[s].since <= Len(published)
                /\ [k \in DOMAIN seen |-> seen[k].id]
                     = SubSeq(published, subs[s].since + 1, Len(published))
                /\ \A k \in DOMAIN seen :
                      \E i \in DOMAIN books :
                         /\ books[i].id = seen[k].id
                         /\ books[i].title = seen[k].title
                         /\ books[i].published = seen[k].published
                         /\ books[i].genres = seen[k].genres
                         /\ \E a \in seen[k].author : a.id = books[i].author
    /\ \A k, l \in DOMAIN published : k # l => published[k] # published[l]
    /\ \A k \in DOMAIN published : \E i \in DOMAIN books : books[i].id = published[k]
    /\ Len(published) + Cardinality({t \in TaskIds : tasks[t].pc = "populate"}) = Len(books)
    /\ \A t \in TaskIds :
          (tasks[t].pc = "done" /\ tasks[t].op = "addBook" /\ tasks[t].err = "")
          => /\ published # <<>>
             /\ \E v \in tasks[t].val : published[Len(published)] = v.id

\* C9 witness: a subscriber that was registered before two addBook calls has
\* been sent both Books.
C9_Witness ==
    \E s \in SubIds :
       /\ subs[s].active
       /\ subs[s].since = 0
       /\ Len(subs[s].got) = 2
       /\ Len(published) = 2

\* C10: in every reachable state, with addBook calls naming the same new
\* author interleaved between lookup and insert included, no two stored
\* Authors have the same name.
C10_UniqueAuthorNames ==
    \A i, j \in DOMAIN authors : i # j => authors[i].name # authors[j].name

====
